---- MODULE Spec2Model ----
(***************************************************************************)
(* Model of the ESC/P 9-pin printer driver (ESCPdriver.py).                *)
(*                                                                         *)
(* ParallelAdapter drives a printer through an MCP23017 port expander:     *)
(* port A carries the data byte, port B carries the control lines (STROBE, *)
(* AUTOFEED, INIT: outputs) and the status lines (ACK, BUSY, PAPEREND,     *)
(* SELECT, ERROR: inputs).  Every operation of the driver ends in calls of *)
(* putchar, which is modelled statement by statement.  The driver never     *)
(* reads port A back: the values written to it are kept in the log of port *)
(* writes, not in a latch variable.                                        *)
(*                                                                         *)
(* The source divides integers with "/" and passes the result to range():  *)
(* it runs with integer (floor) division, which is \div here.              *)
(***************************************************************************)
EXTENDS Integers, Sequences, FiniteSets, TLC

\* ------------------------------------------------------------------------
\* Bounds of the model.
\* ------------------------------------------------------------------------
\* retries (answers other than 'n') allowed for one byte
MaxRetries == 1
\* failing bus writes allowed while one byte is sent
MaxBusFailures == 1
\* tab positions passed to one call of set_hor_tabs or set_ver_tabs
MaxTabs == 3

\* The largest number of glyphs handed to one define_draft_char call.
MaxGlyphs == 2

\* ------------------------------------------------------------------------
\* Constants of ParallelAdapter.
\* ------------------------------------------------------------------------
NUL == 0
LF == 10
CR == 13
ESC == 27

PIN_STROBE == 0
PIN_ACK == 1
PIN_BUSY == 2
PIN_PAPEREND == 3
PIN_SELECT == 4
PIN_AUTOFEED == 5
PIN_ERROR == 6
PIN_INIT == 7

\* ------------------------------------------------------------------------
\* Bit helpers for Python's >>, % 2 and ^ (1 << b) on 8-bit values.
\* ------------------------------------------------------------------------
Pow2(b) == 2 ^ b

BitAt(v, b) == (v \div Pow2(b)) % 2

\* v ^ (0b1 << b)
ToggleBit(v, b) == IF BitAt(v, b) = 1 THEN v - Pow2(b) ELSE v + Pow2(b)

Last(s) == s[Len(s)]

\* ------------------------------------------------------------------------
\* State.
\* ------------------------------------------------------------------------
VARIABLES
    NL,             \* self.NL: the new-line byte sequence
    hard_autofeed,  \* self._hard_autofeed
    GPIOB,          \* expander port B latch: the driven control lines
    op,             \* the operation in progress: [name, n, s, m]
    calls,          \* the putchar calls the operation makes, in order
    ci,             \* index of the putchar call in progress (0: none yet)
    k,              \* index of `val` in the values of the call in progress
    pc,             \* position of control
    error,          \* putchar's local `error`
    ready,          \* putchar's local `ready`
    stt,            \* putchar's local `stt`: the last status() result
    action,         \* putchar's local `action`: the operator's answer
    printed,        \* diagnostics printed by the operation for its pending error
    exc,            \* the exception that ended the operation, if any
    log,            \* port writes and poll outcomes for the byte in progress
    sent,           \* values whose handshake completed, whole operation
    retries,        \* retries taken for the byte in progress
    failures,       \* failed bus writes for the byte in progress
    selected,       \* the method last accepted by set_autofeed_method
    printer,        \* the kind of printer attached: "any" or "typical"
    other           \* putchar's position and locals in a second caller

vars == <<NL, hard_autofeed, GPIOB, op, calls, ci, k, pc, error, ready,
          stt, action, printed, exc, log, sent, retries, failures, selected,
          printer, other>>

NoStatus == [ACK |-> 2, BUSY |-> 2, PAPEREND |-> 2, SELECT |-> 2, ERROR |-> 2]
NoAction == "none"
NoException == [type |-> "none", args |-> {}]
NoOp == [name |-> "none", n |-> 0, s |-> "", m |-> <<>>]
NoCaller == [pc |-> "idle", k |-> 0, values |-> <<>>]

\* The value `val` of the for loop of putchar.
val == calls[ci][k]

\* ------------------------------------------------------------------------
\* ParallelAdapter.__init__ and MCP23017.__init__: the expander is in its
\* power-on state (all latches 0), hardware autofeed is the default.
\* ------------------------------------------------------------------------
InitDriver ==
    /\ NL = <<CR>>
    /\ hard_autofeed = TRUE
    /\ GPIOB = 0
    /\ op = NoOp
    /\ calls = <<>>
    /\ ci = 0
    /\ k = 0
    /\ pc = "idle"
    /\ error = FALSE
    /\ ready = FALSE
    /\ stt = NoStatus
    /\ action = NoAction
    /\ printed = {}
    /\ exc = NoException
    /\ log = <<>>
    /\ sent = <<>>
    /\ retries = 0
    /\ failures = 0
    /\ selected = "hard"
    /\ other = NoCaller

\* The levels the printer drives on the five input pins.
InputLevels == [{PIN_ACK, PIN_BUSY, PIN_PAPEREND, PIN_SELECT, PIN_ERROR} -> {0, 1}]

Levels(ack, busy, paperend, select, err) ==
    [b \in {PIN_ACK, PIN_BUSY, PIN_PAPEREND, PIN_SELECT, PIN_ERROR} |->
        CASE b = PIN_ACK -> ack
          [] b = PIN_BUSY -> busy
          [] b = PIN_PAPEREND -> paperend
          [] b = PIN_SELECT -> select
          [] b = PIN_ERROR -> err]

\* A printer that is ready, busy, out of paper or offline.
TypicalLevels ==
    {Levels(1, 0, 0, 1, 1), Levels(0, 1, 0, 1, 1), Levels(0, 1, 1, 1, 0),
     Levels(0, 1, 0, 0, 0)}

\* A printer that is ready or busy and never shows a fault.
PatientLevels == {Levels(1, 0, 0, 1, 1), Levels(0, 1, 0, 1, 1)}

\* The input levels each kind of printer can show at a poll.
PrinterLevels(kind) ==
    CASE kind = "any" -> InputLevels
      [] kind = "patient" -> PatientLevels
      [] OTHER -> TypicalLevels

\* A printer that can show every combination of levels.
Init == InitDriver /\ printer = "any"

\* A printer that shows the typical levels only.
InitTypical == InitDriver /\ printer = "typical"

\* A printer that never shows a fault.
InitPatient == InitDriver /\ printer = "patient"

\* ------------------------------------------------------------------------
\* MCP23017.write: i2c_bus.write_byte_data either succeeds, returns an error
\* value (write prints "SMBus error" and returns normally: the log entry keeps
\* the result) or raises (the exception propagates: nothing in the driver
\* catches it).
\* ------------------------------------------------------------------------
BusOutcomes == {"ok", "err", "raise"}

write(register, value, o, next) ==
    /\ o \in BusOutcomes
    /\ (o # "ok") => failures < MaxBusFailures
    /\ failures' = IF o = "ok" THEN failures ELSE failures + 1
    /\ log' = Append(log, [reg |-> register, val |-> value, k |-> k, res |-> o,
                            by |-> 1])
    /\ GPIOB' = IF register = "GPIOB" /\ o = "ok" THEN value ELSE GPIOB
    /\ printed' = printed
    /\ IF o = "raise"
         THEN /\ pc' = "raised"
              /\ exc' = [type |-> "IOError", args |-> {}]
         ELSE /\ pc' = next
              /\ exc' = exc

\* ------------------------------------------------------------------------
\* ParallelAdapter.status: decode of one read of port B.
\* ------------------------------------------------------------------------
\* Mutant of status: ERROR is taken from the autofeed bit.
status_ErrorFromAutofeed(valB) ==
    [ACK      |-> BitAt(valB, PIN_ACK),
     BUSY     |-> BitAt(valB, PIN_BUSY),
     PAPEREND |-> BitAt(valB, PIN_PAPEREND),
     SELECT   |-> BitAt(valB, PIN_SELECT),
     ERROR    |-> BitAt(valB, PIN_AUTOFEED)]

status(valB) ==
    [ACK      |-> BitAt(valB, PIN_ACK),
     BUSY     |-> BitAt(valB, PIN_BUSY),
     PAPEREND |-> BitAt(valB, PIN_PAPEREND),
     SELECT   |-> BitAt(valB, PIN_SELECT),
     ERROR    |-> BitAt(valB, PIN_ERROR)]

\* MCP23017.read of GPIOB: input pins read the printer's levels, output pins
\* read back the latch.
ReadGPIOB(in) ==
    LET bit(b) == IF b \in DOMAIN in THEN in[b] ELSE BitAt(GPIOB, b)
    IN  bit(0) + 2 * bit(1) + 4 * bit(2) + 8 * bit(3) + 16 * bit(4)
        + 32 * bit(5) + 64 * bit(6) + 128 * bit(7)

\* ------------------------------------------------------------------------
\* ParallelAdapter.putchar.
\* ------------------------------------------------------------------------
\* Mutant of StrobeValB: the autofeed flag is read with the wrong polarity.
StrobeValB_Inverted ==
    IF hard_autofeed THEN 255 ELSE ToggleBit(255, PIN_AUTOFEED)

\* valB of the first control write: all ones, AUTOFEED grounded under
\* hardware autofeed.
StrobeValB ==
    IF hard_autofeed THEN ToggleBit(255, PIN_AUTOFEED) ELSE 255

\* for val in values: error = True; while error: gpio.write(GPIOA, val)
SetData ==
    /\ pc = "setdata"
    /\ \E o \in BusOutcomes : write("GPIOA", val, o, "strobe1")
    /\ error' = TRUE
    /\ stt' = NoStatus
    /\ action' = NoAction
    /\ UNCHANGED <<NL, hard_autofeed, op, calls, ci, k, ready, sent, retries,
                   selected, printer, other>>

\* valB = 0b11111111 (^ AUTOFEED); gpio.write(GPIOB, valB)
StrobeFirst ==
    /\ pc = "strobe1"
    /\ \E o \in BusOutcomes : write("GPIOB", StrobeValB, o, "strobe2")
    /\ UNCHANGED <<NL, hard_autofeed, op, calls, ci, k, error, ready, stt,
                   action, sent, retries, selected, printer, other>>

\* sleep(strobe_duration); valB ^= (0b1 << _STROBE); gpio.write(GPIOB, valB);
\* ready = False
StrobeSecond ==
    /\ pc = "strobe2"
    /\ \E o \in BusOutcomes :
          write("GPIOB", ToggleBit(StrobeValB, PIN_STROBE), o, "poll")
    /\ ready' = FALSE
    /\ UNCHANGED <<NL, hard_autofeed, op, calls, ci, k, error, stt, action,
                   sent, retries, selected, printer, other>>

\* The condition of line 108.
IsFault(st) == (st.PAPEREND = 1) \/ (st.SELECT = 0) \/ (st.ERROR = 0)

\* Mutant of IsReady: no status counts as ready.
IsReady_Never(st) == FALSE

\* The condition of line 121.
IsReady(st) == (st.BUSY = 0) /\ (st.ACK = 1)

\* Mutant of PollBranch: the ready test is made before the fault test.
PollBranch_ReadyFirst(st) ==
    IF IsReady(st) THEN "Ready"
    ELSE IF IsFault(st) THEN "Fault"
    ELSE "Wait"

\* The branch one iteration of the polling loop takes: the fault test comes
\* first and leaves the iteration (raise or break) before the ready test.
PollBranch(st) ==
    IF IsFault(st) THEN "Fault"
    ELSE IF IsReady(st) THEN "Ready"
    ELSE "Wait"

\* The messages printed before the prompt (lines 109-115).
FaultMessages(st) ==
    (IF st.PAPEREND = 1 THEN {"Out of paper."} ELSE {})
    \cup (IF st.SELECT = 0 THEN {"Printer not selected."} ELSE {})
    \cup (IF st.ERROR = 0 THEN {"Printer error (maybe not online?)."} ELSE {})

\* Mutant of NextIndex: a value is skipped.
NextIndex_Skip(i) == i + 2

\* `for val in values`: the index of the next value.
NextIndex(i) == i + 1

\* One iteration of `while (not ready)`: stt = self.status() and the tests.
Poll ==
    /\ pc = "poll"
    /\ \E in \in PrinterLevels(printer) :
         LET st == status(ReadGPIOB(in))
             br == PollBranch(st)
         IN
         /\ stt' = st
         /\ CASE br = "Fault" ->
                   /\ printed' = FaultMessages(st)
                   /\ log' = Append(log, [reg |-> "FAULT", val |-> val,
                                          k |-> k, res |-> "ok", by |-> 1])
                   /\ pc' = "prompt"
                   /\ UNCHANGED <<ready, error, sent, ci, k, retries, failures>>
              [] br = "Ready" ->
                   /\ ready' = TRUE
                   /\ error' = FALSE
                   /\ sent' = Append(sent, val)
                   /\ printed' = printed
                   /\ IF k < Len(calls[ci])
                        THEN /\ k' = NextIndex(k)
                             /\ pc' = "setdata"
                             /\ log' = <<>>
                             /\ retries' = 0
                             /\ failures' = 0
                             /\ ci' = ci
                        ELSE IF ci < Len(calls)
                        THEN /\ ci' = ci + 1
                             /\ k' = 1
                             /\ pc' = "setdata"
                             /\ log' = <<>>
                             /\ retries' = 0
                             /\ failures' = 0
                        ELSE /\ pc' = "returned"
                             /\ log' = Append(log, [reg |-> "READY",
                                    val |-> val, k |-> k, res |-> "ok",
                                    by |-> 1])
                             /\ UNCHANGED <<ci, k, retries, failures>>
              [] br = "Wait" ->
                   /\ pc' = "poll"
                   /\ UNCHANGED <<ready, error, sent, printed, log, ci, k,
                                  retries, failures>>
    /\ UNCHANGED <<NL, hard_autofeed, GPIOB, op, calls, action, exc,
                   selected, printer, other>>

\* What the operator can type at the prompt.
Answers == {"n", "y"}

\* Mutant of Decide: the answer 'n' is not recognised.
Decide_NeverRaise(a) == "break"

\* if (action == 'n'): raise KeyboardInterrupt  else: break
Decide(a) == IF a = "n" THEN "raise" ELSE "break"

\* Mutant of RetryTarget: a retry resumes polling.
RetryTarget_Poll == "poll"

\* Where `break` leads: `error` is still True, so `while error` runs its body
\* again from the data write.
RetryTarget == "setdata"

\* action = input("Would you like to resume printing? (y/n):").  After a
\* break the status and the messages of the answered prompt are dead.
Answer ==
    /\ pc = "prompt"
    /\ \E a \in Answers :
         /\ action' = a
         /\ IF Decide(a) = "raise"
              THEN /\ pc' = "raised"
                   /\ exc' = [type |-> "KeyboardInterrupt", args |-> {}]
                   /\ UNCHANGED <<retries, stt, printed>>
              ELSE /\ retries < MaxRetries
                   /\ retries' = retries + 1
                   /\ pc' = RetryTarget
                   /\ exc' = exc
                   /\ stt' = NoStatus
                   /\ printed' = {}
    /\ UNCHANGED <<NL, hard_autofeed, GPIOB, op, calls, ci, k, error,
                   ready, log, sent, failures, selected, printer, other>>

\* ------------------------------------------------------------------------
\* putchar in a second caller of the same ParallelAdapter.  The adapter holds
\* no lock: the statements of the two callers interleave at every port access
\* and every sleep.  The second caller makes one call, its bus writes
\* succeed, and its port writes go to the same ports and the same log; at a
\* fault it waits at the prompt.
\* ------------------------------------------------------------------------
\* The argument tuple of the second caller.
OtherValues == <<97>>

Other_write(register, value, next) ==
    /\ log' = Append(log, [reg |-> register, val |-> value, k |-> other.k,
                            res |-> "ok", by |-> 2])
    /\ GPIOB' = IF register = "GPIOB" THEN value ELSE GPIOB
    /\ other' = [other EXCEPT !.pc = next]

Other_Call_putchar ==
    /\ other.pc = "idle"
    /\ other' = [pc |-> "setdata", k |-> 1, values |-> OtherValues]
    /\ UNCHANGED <<NL, hard_autofeed, GPIOB, op, calls, ci, k, pc, error,
                   ready, stt, action, printed, exc, log, sent, retries,
                   failures, selected, printer>>

Other_SetData ==
    /\ other.pc = "setdata"
    /\ Other_write("GPIOA", other.values[other.k], "strobe1")
    /\ UNCHANGED <<NL, hard_autofeed, op, calls, ci, k, pc, error, ready,
                   stt, action, printed, exc, sent, retries, failures,
                   selected, printer>>

Other_StrobeFirst ==
    /\ other.pc = "strobe1"
    /\ Other_write("GPIOB", StrobeValB, "strobe2")
    /\ UNCHANGED <<NL, hard_autofeed, op, calls, ci, k, pc, error, ready,
                   stt, action, printed, exc, sent, retries, failures,
                   selected, printer>>

Other_StrobeSecond ==
    /\ other.pc = "strobe2"
    /\ Other_write("GPIOB", ToggleBit(StrobeValB, PIN_STROBE), "poll")
    /\ UNCHANGED <<NL, hard_autofeed, op, calls, ci, k, pc, error, ready,
                   stt, action, printed, exc, sent, retries, failures,
                   selected, printer>>

Other_Poll ==
    /\ other.pc = "poll"
    /\ \E in \in PrinterLevels(printer) :
         LET br == PollBranch(status(ReadGPIOB(in)))
         IN  other' = [other EXCEPT
                 !.pc = CASE br = "Fault" -> "prompt"
                          [] br = "Wait" -> "poll"
                          [] br = "Ready" ->
                                IF other.k < Len(other.values)
                                  THEN "setdata" ELSE "returned",
                 !.k = IF br = "Ready" /\ other.k < Len(other.values)
                         THEN NextIndex(other.k) ELSE other.k]
    /\ UNCHANGED <<NL, hard_autofeed, GPIOB, op, calls, ci, k, pc, error,
                   ready, stt, action, printed, exc, log, sent, retries,
                   failures, selected, printer>>

\* ------------------------------------------------------------------------
\* Starting an operation: the driver is single threaded, so an operation
\* starts when none is in progress.
\* ------------------------------------------------------------------------
AtRest == pc \in {"idle", "returned", "raised"}

\* putchar() with no value does nothing: only calls with values are kept.
NonEmptyCalls(cs) == SelectSeq(cs, LAMBDA c : Len(c) > 0)

Begin(name, n, s, m, cs) ==
    /\ AtRest
    /\ op' = [name |-> name, n |-> n, s |-> s, m |-> m]
    /\ calls' = NonEmptyCalls(cs)
    /\ ci' = IF NonEmptyCalls(cs) = <<>> THEN 0 ELSE 1
    /\ k' = IF NonEmptyCalls(cs) = <<>> THEN 0 ELSE 1
    /\ pc' = IF NonEmptyCalls(cs) = <<>> THEN "returned" ELSE "setdata"
    /\ error' = FALSE
    /\ ready' = FALSE
    /\ stt' = NoStatus
    /\ action' = NoAction
    /\ exc' = NoException
    /\ log' = <<>>
    /\ sent' = <<>>
    /\ retries' = 0
    /\ failures' = 0

\* The argument tuples the model passes to putchar directly.
PutcharInputs == {<<65>>, <<65, 66, 67>>}

Call_putchar ==
    /\ \E values \in PutcharInputs : Begin("putchar", 0, "", <<>>, <<values>>)
    /\ printed' = {}
    /\ UNCHANGED <<NL, hard_autofeed, GPIOB, selected, printer, other>>

\* A direct call of status(): valB = self.gpio.read(self.gpio.GPIOB), the
\* five fields, return stt.  op.n keeps the value read and the log the one
\* bus transaction of the call.
Call_status ==
    /\ AtRest
    /\ \E in \in PrinterLevels(printer) :
         LET valB == ReadGPIOB(in)
         IN  /\ op' = [name |-> "status", n |-> valB, s |-> "", m |-> <<>>]
             /\ stt' = status(valB)
             /\ log' = << [reg |-> "GPIOB", val |-> valB, k |-> 0,
                           res |-> "read", by |-> 1] >>
    /\ calls' = <<>>
    /\ ci' = 0
    /\ k' = 0
    /\ pc' = "returned"
    /\ error' = FALSE
    /\ ready' = FALSE
    /\ action' = NoAction
    /\ exc' = NoException
    /\ sent' = <<>>
    /\ retries' = 0
    /\ failures' = 0
    /\ printed' = {}
    /\ UNCHANGED <<NL, hard_autofeed, GPIOB, selected, printer, other>>

\* ------------------------------------------------------------------------
\* write_string and writeln.  A message is a sequence of characters.
\* ------------------------------------------------------------------------
\* Python's ord on the characters of the model.
ord(c) == CASE c = "H" -> 72 [] c = "i" -> 105 [] c = "\n" -> 10

Messages == {<<>>, <<"H", "i">>}

\* for char in message: self.putchar(ord(char))
write_string(message) == [i \in 1..Len(message) |-> <<ord(message[i])>>]

\* Mutant of writeln: CR LF is appended whatever the policy.
writeln_AlwaysCRLF(message) == write_string(message) \o << <<CR, LF>> >>

\* self.write_string(message); self.putchar(*(self.NL))
writeln(message) == write_string(message) \o <<NL>>

Call_writeln ==
    /\ \E message \in Messages :
          Begin("writeln", 0, "", message, writeln(message))
    /\ printed' = {}
    /\ UNCHANGED <<NL, hard_autofeed, GPIOB, selected, printer, other>>

\* ------------------------------------------------------------------------
\* set_autofeed_method.
\* ------------------------------------------------------------------------
Methods == {"hard", "soft", "none", "auto"}

Call_set_autofeed_method ==
    /\ \E method \in Methods :
         /\ Begin("set_autofeed_method", 0, method, <<>>, <<>>)
         /\ CASE method = "hard" ->
                   /\ NL' = <<CR>>
                   /\ hard_autofeed' = TRUE
                   /\ selected' = method
                   /\ printed' = {}
              [] method = "soft" ->
                   /\ NL' = <<CR, LF>>
                   /\ hard_autofeed' = FALSE
                   /\ selected' = method
                   /\ printed' = {}
              [] method = "none" ->
                   /\ NL' = <<CR>>
                   /\ hard_autofeed' = FALSE
                   /\ selected' = method
                   /\ printed' = {}
              [] OTHER ->
                   /\ printed' = {"Error: not a valid method."}
                   /\ UNCHANGED <<NL, hard_autofeed, selected>>
    /\ UNCHANGED <<GPIOB, printer, other>>

\* ------------------------------------------------------------------------
\* Command codec: the putchar calls each command makes.
\* ------------------------------------------------------------------------
\* Mutant of set_page_length_lines: the documented domain is enforced.
set_page_length_lines_Validated(n) ==
    IF n >= 1 /\ n <= 127 THEN << <<ESC, 67, n>> >> ELSE <<>>

\* self.putchar(self.ESC, ord('C'), n)
set_page_length_lines(n) == << <<ESC, 67, n>> >>

\* self.putchar(self.ESC, ord('C'), self.NUL, n)
set_page_length_inches(n) == << <<ESC, 67, NUL, n>> >>

\* Mutant of set_abs_hor_pos: the high byte is sent first.
set_abs_hor_pos_HighFirst(n) == << <<ESC, 36, n \div 256, n % 256>> >>

\* self.putchar(self.ESC, ord('$'), n%256, n/256)
set_abs_hor_pos(n) == << <<ESC, 36, n % 256, n \div 256>> >>

\* Mutant of RelPair: the offset is left out of the low byte.
RelPair_NoLowOffset(n) ==
    IF n < 0
      THEN <<(-n) % 256, 32768 - ((-n) \div 256)>>
      ELSE <<n % 256, n \div 256>>

\* The pair (nl, nh) of set_rel_hor_pos.
RelPair(n) ==
    IF n < 0
      THEN <<32768 - ((-n) % 256), 32768 - ((-n) \div 256)>>
      ELSE <<n % 256, n \div 256>>

\* self.putchar(self.ESC, ord('\\'), nl, nh)
set_rel_hor_pos(n) == << <<ESC, 92, RelPair(n)[1], RelPair(n)[2]>> >>

\* self.putchar(self.ESC, ord('3'), n)
set_line_spacing(n) == << <<ESC, 51, n>> >>

\* self.putchar(self.ESC, ord('2'))
unset_line_spacing == << <<ESC, 50>> >>

\* Arguments the model calls the commands with: values inside each
\* documented domain and the first value beyond one of its ends.
PageLengthLinesArgs == {0, 127, 128}
PageLengthInchesArgs == {1, 23}
AbsHorPosArgs == {-1, 300, 32768}
RelHorPosArgs == {-16385, -300, 300, 16385}
LineSpacingArgs == {24}

Call_set_page_length_lines ==
    /\ \E n \in PageLengthLinesArgs :
          Begin("set_page_length_lines", n, "", <<>>, set_page_length_lines(n))
    /\ printed' = {}
    /\ UNCHANGED <<NL, hard_autofeed, GPIOB, selected, printer, other>>

Call_set_page_length_inches ==
    /\ \E n \in PageLengthInchesArgs :
          Begin("set_page_length_inches", n, "", <<>>, set_page_length_inches(n))
    /\ printed' = {}
    /\ UNCHANGED <<NL, hard_autofeed, GPIOB, selected, printer, other>>

Call_set_abs_hor_pos ==
    /\ \E n \in AbsHorPosArgs :
          Begin("set_abs_hor_pos", n, "", <<>>, set_abs_hor_pos(n))
    /\ printed' = {}
    /\ UNCHANGED <<NL, hard_autofeed, GPIOB, selected, printer, other>>

Call_set_rel_hor_pos ==
    /\ \E n \in RelHorPosArgs :
          Begin("set_rel_hor_pos", n, "", <<>>, set_rel_hor_pos(n))
    /\ printed' = {}
    /\ UNCHANGED <<NL, hard_autofeed, GPIOB, selected, printer, other>>

Call_set_line_spacing ==
    /\ \E n \in LineSpacingArgs :
          Begin("set_line_spacing", n, "", <<>>, set_line_spacing(n))
    /\ printed' = {}
    /\ UNCHANGED <<NL, hard_autofeed, GPIOB, selected, printer, other>>

Call_unset_line_spacing ==
    /\ Begin("unset_line_spacing", 0, "", <<>>, unset_line_spacing)
    /\ printed' = {}
    /\ UNCHANGED <<NL, hard_autofeed, GPIOB, selected, printer, other>>

\* set_justification: the value n of a recognised name, -1 for the else
\* branch (print the error and return).
JustificationCode(justification) ==
    CASE justification = "left" -> 0
      [] justification = "right" -> 2
      [] justification = "center" -> 1
      [] justification = "full" -> 3
      [] OTHER -> -1

\* self.putchar(self.ESC, ord('a'), n), unless the else branch returned.
set_justification(justification) ==
    IF JustificationCode(justification) = -1
      THEN <<>>
      ELSE << <<ESC, 97, JustificationCode(justification)>> >>

Justifications == {"left", "full", "middle"}

Call_set_justification ==
    /\ \E justification \in Justifications :
         /\ Begin("set_justification", 0, justification, <<>>,
                  set_justification(justification))
         /\ printed' = IF JustificationCode(justification) = -1
                         THEN {"Error: invalid justification value."}
                         ELSE {}
    /\ UNCHANGED <<NL, hard_autofeed, GPIOB, selected, printer, other>>

\* ------------------------------------------------------------------------
\* set_hor_tabs and set_ver_tabs.
\* ------------------------------------------------------------------------
\* One step of list.sort(): x goes before the first element that is not
\* smaller, so equal positions are all kept.
RECURSIVE Insert(_, _)
Insert(x, s) ==
    IF s = <<>> THEN <<x>>
    ELSE IF x <= Head(s) THEN <<x>> \o s
    ELSE <<Head(s)>> \o Insert(x, Tail(s))

\* Mutant of sort: a position already in the list is dropped.
RECURSIVE sort_Unique(_)
sort_Unique(n) ==
    IF n = <<>> THEN <<>>
    ELSE IF \E i \in 2..Len(n) : n[i] = Head(n) THEN sort_Unique(Tail(n))
    ELSE Insert(Head(n), sort_Unique(Tail(n)))

\* n = list(n); n.sort()
RECURSIVE sort(_)
sort(n) == IF n = <<>> THEN <<>> ELSE Insert(Head(n), sort(Tail(n)))

\* self.putchar(self.ESC, ord('D'), *n); self.putchar(self.NUL)
set_hor_tabs(n) == << <<ESC, 68>> \o sort(n), <<NUL>> >>

\* self.putchar(self.ESC, ord('B'), *n); self.putchar(self.NUL)
set_ver_tabs(n) == << <<ESC, 66>> \o sort(n), <<NUL>> >>

\* The tab positions the model uses and the tuples of at most MaxTabs of
\* them, in every order.
TabPositions == {1, 8, 255}

TabArgs == UNION {[1..l -> TabPositions] : l \in 0..MaxTabs}

\* ------------------------------------------------------------------------
\* Glyph and define_draft_char.
\* ------------------------------------------------------------------------
\* Glyph.__init__: self.data = []; self._a = 1
Glyph == [data |-> <<>>, _a |-> 1]

\* Mutant of BeforeOffset: the branch of before == 6 is missing.
BeforeOffset_NoSix(before) ==
    CASE before = 0 -> 0
      [] before = 1 -> 16
      [] before = 2 -> 32
      [] before = 3 -> 48
      [] before = 4 -> 64
      [] before = 5 -> 80
      [] OTHER -> 112

\* The if / elif chain of set_draft: what is added to _a for `before`.
BeforeOffset(before) ==
    CASE before = 0 -> 0
      [] before = 1 -> 16
      [] before = 2 -> 32
      [] before = 3 -> 48
      [] before = 4 -> 64
      [] before = 5 -> 80
      [] before = 6 -> 96
      [] OTHER -> 112

\* Glyph.set_draft: self._a = after; self._a += ...; if (upper): self._a += 128
set_draft(glyph, before, after, upper) ==
    [glyph EXCEPT !._a = after + BeforeOffset(before)
                           + (IF upper THEN 128 ELSE 0)]

\* The column data of the glyph of examples/testUserChar.py.
SmileData == <<0, 4, 0, 122, 0, 2, 120, 2, 4, 0, 0>>

\* Mutant of define_draft_char: the end code is one past the last glyph.
define_draft_char_EndExclusive(start_code, glyphs) ==
    << <<ESC, 38, NUL, start_code, start_code + Len(glyphs)>> >>
    \o [i \in 1..Len(glyphs) |-> <<glyphs[i]._a>> \o glyphs[i].data]

\* self.putchar(self.ESC, ord('&'), self.NUL, start_code, end_code), then
\* self.putchar(glyph._a, *(glyph.data)) for each glyph.
define_draft_char(start_code, glyphs) ==
    << <<ESC, 38, NUL, start_code, start_code + Len(glyphs) - 1>> >>
    \o [i \in 1..Len(glyphs) |-> <<glyphs[i]._a>> \o glyphs[i].data]

\* The glyphs handed to define_draft_char: the two data lists of
\* examples/testUserChar.py, a Glyph() left as constructed, and a narrow
\* glyph on which set_draft(7, 11, True) was called.
GlyphPool ==
    << [Glyph EXCEPT !.data = SmileData],
       [Glyph EXCEPT !.data = <<60, 66, 129, 0, 66, 36, 0, 60, 0, 36, 24>>],
       Glyph,
       set_draft([Glyph EXCEPT !.data = <<1, 2>>], 7, 11, TRUE) >>

\* The argument lists *glyphs, as indexes into GlyphPool.
GlyphLists ==
    UNION {[1..n -> 1..Len(GlyphPool)] : n \in 0..MaxGlyphs}

StartCodes == {0, 65}

\* ------------------------------------------------------------------------
\* reset_printer.
\* ------------------------------------------------------------------------
\* self.putchar(self.ESC, ord('@'))
reset_printer == << <<ESC, 64>> >>

\* Mutant of Call_reset_printer: the reset also puts the line-ending policy
\* back to its default.
Call_reset_printer_DefaultsPolicy ==
    /\ Begin("reset_printer", 0, "", <<>>, reset_printer)
    /\ printed' = {}
    /\ NL' = <<CR>>
    /\ hard_autofeed' = TRUE
    /\ UNCHANGED <<GPIOB, selected, printer, other>>

Call_reset_printer ==
    /\ Begin("reset_printer", 0, "", <<>>, reset_printer)
    /\ printed' = {}
    /\ UNCHANGED <<NL, hard_autofeed, GPIOB, selected, printer, other>>

\* ------------------------------------------------------------------------
\* reset_hard: a pulse on INIT, then putchar(ord(' ')).
\* ------------------------------------------------------------------------
\* valB = 0b11111111; if (self._hard_autofeed): valB ^= (0b1 << _AUTOFEED)
\* Mutant of ResetValB: the strobe bit is driven low during the reset.
ResetValB_StrobeLow ==
    IF hard_autofeed THEN ToggleBit(254, PIN_AUTOFEED) ELSE 254

ResetValB ==
    IF hard_autofeed THEN ToggleBit(255, PIN_AUTOFEED) ELSE 255

Call_reset_hard ==
    /\ AtRest
    /\ op' = [name |-> "reset_hard", n |-> 0, s |-> "", m |-> <<>>]
    /\ calls' = << <<32>> >>
    /\ ci' = 0
    /\ k' = 0
    /\ pc' = "init_low"
    /\ error' = FALSE
    /\ ready' = FALSE
    /\ stt' = NoStatus
    /\ action' = NoAction
    /\ exc' = NoException
    /\ log' = <<>>
    /\ sent' = <<>>
    /\ retries' = 0
    /\ failures' = 0
    /\ printed' = {}
    /\ UNCHANGED <<NL, hard_autofeed, GPIOB, selected, printer, other>>

\* self.gpio.write(self.gpio.GPIOB, valB ^ (0b1 << self._INIT))
ResetInitLow ==
    /\ pc = "init_low"
    /\ \E o \in BusOutcomes :
          write("GPIOB", ToggleBit(ResetValB, PIN_INIT), o, "init_high")
    /\ UNCHANGED <<NL, hard_autofeed, op, calls, ci, k, error, ready, stt,
                   action, sent, retries, selected, printer, other>>

\* sleep(self.strobe_duration); self.gpio.write(self.gpio.GPIOB, valB);
\* then the call self.putchar(ord(' ')) starts.
ResetInitHigh ==
    /\ pc = "init_high"
    /\ \E o \in BusOutcomes :
         /\ write("GPIOB", ResetValB, o, "setdata")
         /\ ci' = IF o = "raise" THEN ci ELSE 1
         /\ k' = IF o = "raise" THEN k ELSE 1
    /\ UNCHANGED <<NL, hard_autofeed, op, calls, error, ready, stt, action,
                   sent, retries, selected, printer, other>>

\* ------------------------------------------------------------------------
\* write_image.  An image has a width, a height, a mode and pixels: getpixel
\* returns a tuple in mode RGB and a number in mode L.
\* ------------------------------------------------------------------------
Black == <<0, 0, 0>>
White == <<255, 255, 255>>
Blue == <<0, 0, 255>>

Image(name) ==
    CASE name = "dots2x3" ->
           [width |-> 2, height |-> 3, mode |-> "RGB",
            px |-> [xy \in (0..1) \X (0..2) |->
                      IF xy \in {<<0, 0>>, <<1, 2>>} THEN Black
                      ELSE IF xy = <<1, 0>> THEN Blue ELSE White]]
      [] name = "bar1x8" ->
           [width |-> 1, height |-> 8, mode |-> "L",
            px |-> [xy \in (0..0) \X (0..7) |-> 0]]
      [] name = "mix2x9" ->
           [width |-> 2, height |-> 9, mode |-> "L",
            px |-> [xy \in (0..1) \X (0..8) |->
                      IF xy \in {<<0, 0>>, <<0, 7>>, <<1, 8>>} THEN 0 ELSE 255]]
      [] name = "rgb2x8" ->
           [width |-> 2, height |-> 8, mode |-> "RGB",
            px |-> [xy \in (0..1) \X (0..7) |->
                      IF xy \in {<<0, 0>>, <<0, 1>>, <<1, 7>>} THEN Black
                      ELSE White]]
      [] name = "line300x1" ->
           [width |-> 300, height |-> 1, mode |-> "L",
            px |-> [xy \in (0..299) \X (0..0) |->
                      IF xy[1] % 2 = 0 THEN 0 ELSE 255]]

ImageNames == {"dots2x3", "bar1x8", "mix2x9"}

\* An image wider than 255 columns, for the encodings alone.
WideImageNames == {"line300x1"}

\* The images passed to the write_image of 9-pindriver.py.
ImageNames9pin == {"dots2x3", "rgb2x8", "mix2x9"}

\* pixel = 0; try: pixel = image.getpixel(xy); except: pass.  Then
\* pixel[0] == 0, or after the TypeError pixel == 0: a read outside the image
\* leaves pixel at 0, which counts as ink.
IsInk(image, xy) ==
    LET inside == xy \in DOMAIN image.px
        pixel == IF inside THEN image.px[xy] ELSE 0
    IN  IF inside /\ image.mode = "RGB" THEN pixel[1] = 0 ELSE pixel = 0

\* Mutant of InHeight: the row is not compared with the height.
InHeight_Unchecked(image, y) == TRUE

\* if (xy[1] < image.height)
InHeight(image, y) == y < image.height

\* Mutant of BitWeight: the top pixel of a slice is bit 0.
BitWeight_TopIsBit0(i) == 2 ^ i

\* val += 2**(7-i)
BitWeight(i) == 2 ^ (7 - i)

\* The value val of one column of one band (lines 618-632).
ColumnVal(image, col, row) ==
    LET term(i) == IF InHeight(image, row * 8 + i)
                      /\ IsInk(image, <<col, row * 8 + i>>)
                     THEN BitWeight(i) ELSE 0
    IN  term(0) + term(1) + term(2) + term(3) + term(4) + term(5) + term(6)
        + term(7)

\* rows = image.height/8 + 1
ImageRows(image) == image.height \div 8 + 1

\* The coordinates image.getpixel is called with: every xy of the three
\* loops that passes the test of line 621.
GetpixelCalls(image) ==
    {xy \in {<<col, row * 8 + i>> : col \in 0..(image.width - 1),
                                     row \in 0..(ImageRows(image) - 1),
                                     i \in 0..7} :
        InHeight(image, xy[2])}

\* Mutant of ImageBand: the last column of the band is not sent.
ImageBand_ShortData(image, row) ==
    << <<ESC, 42, 5, image.width % 256, image.width \div 256>> >>
    \o [c \in 1..(image.width - 1) |-> <<ColumnVal(image, c - 1, row)>>]
    \o <<NL>>

\* The putchar calls of one band: the introducer, one call per column, NL.
ImageBand(image, row) ==
    << <<ESC, 42, 5, image.width % 256, image.width \div 256>> >>
    \o [c \in 1..image.width |-> <<ColumnVal(image, c - 1, row)>>]
    \o <<NL>>

RECURSIVE ImageBands(_, _)
ImageBands(image, row) ==
    IF row >= ImageRows(image) THEN <<>>
    ELSE ImageBand(image, row) \o ImageBands(image, row + 1)

write_image(image) ==
    (IF ImageRows(image) > 1 THEN set_line_spacing(24) ELSE <<>>)
    \o ImageBands(image, 0)
    \o (IF ImageRows(image) > 1 THEN unset_line_spacing ELSE <<>>)

Call_write_image ==
    /\ \E filename \in ImageNames :
          Begin("write_image", 0, filename, <<>>, write_image(Image(filename)))
    /\ printed' = {}
    /\ UNCHANGED <<NL, hard_autofeed, GPIOB, selected, printer, other>>

\* ------------------------------------------------------------------------
\* write_image of 9-pindriver.py, the driver whose write_image takes a
\* printing mode m.  It reads pixel[0] with no except clause and getpixel with
\* no test of the coordinates: an IndexError or TypeError ends it.
\* ------------------------------------------------------------------------
\* bytes_per_column = 1; if (m > 7): 3; if (m > 40): 6
bytes_per_column(m) == IF m > 40 THEN 6 ELSE IF m > 7 THEN 3 ELSE 1

\* rows = image.height/(8*bytes_per_column) + 1
ImageRows9pin(image, m) == image.height \div (8 * bytes_per_column(m)) + 1

\* The loops `for row`, `for col`, `for i` run through this many data bytes.
DataBytes9pin(image, m) ==
    ImageRows9pin(image, m) * image.width * bytes_per_column(m)

\* row, col and i of the t-th data byte (t from 0).
Row9pin(image, m, t) == t \div (image.width * bytes_per_column(m))
Col9pin(image, m, t) == (t \div bytes_per_column(m)) % image.width
Sub9pin(image, m, t) == t % bytes_per_column(m)

\* The argument of getpixel for bit j of the t-th data byte:
\* (row, col*8*bytes_per_column + 8*i + j)
Getpixel9pin(image, m, t, j) ==
    <<Row9pin(image, m, t),
      Col9pin(image, m, t) * 8 * bytes_per_column(m)
         + 8 * Sub9pin(image, m, t) + j>>

\* Computing the t-th data byte raises: getpixel outside the image raises
\* IndexError, pixel[0] on a single channel pixel raises TypeError.
Raises9pin(image, m, t) ==
    \E j \in 0..7 :
       \/ Getpixel9pin(image, m, t, j) \notin DOMAIN image.px
       \/ image.mode # "RGB"

\* The data bytes whose putchar is reached: those before the first one that
\* raises.
Reached9pin(image, m) ==
    {t \in 0..(DataBytes9pin(image, m) - 1) :
        \A u \in 0..t : ~ Raises9pin(image, m, u)}

\* val of the t-th data byte: val += 2**j when pixel[0] == 0.
Val9pin(image, m, t) ==
    LET term(j) == IF image.px[Getpixel9pin(image, m, t, j)][1] = 0
                     THEN 2 ^ j ELSE 0
    IN  term(0) + term(1) + term(2) + term(3) + term(4) + term(5) + term(6)
        + term(7)

\* write_image completed without an exception.
Completes9pin(image, m) ==
    Cardinality(Reached9pin(image, m)) = DataBytes9pin(image, m)

\* The putchar calls made: line spacing, one introducer for the whole image,
\* the data bytes reached, and the line spacing restore when nothing raised.
write_image_9pin(image, m) ==
    (IF ImageRows9pin(image, m) > 1 THEN << <<ESC, 51, 24>> >> ELSE <<>>)
    \o << <<ESC, 42, m, image.width % 256, image.width \div 256>> >>
    \o [t \in 1..Cardinality(Reached9pin(image, m)) |->
          <<Val9pin(image, m, t - 1)>>]
    \o (IF ImageRows9pin(image, m) > 1 /\ Completes9pin(image, m)
          THEN << <<ESC, 50>> >> ELSE <<>>)

\* The printing modes the model passes: one of each number of bytes per
\* column.
PrintingModes == {5, 32, 72}

\* ------------------------------------------------------------------------
\* Specifications.
\* ------------------------------------------------------------------------
\* The steps of putchar.
Handshake ==
    \/ SetData
    \/ StrobeFirst
    \/ StrobeSecond
    \/ Poll
    \/ Answer

\* The handshake engine: putchar, reset_hard and the autofeed policy.
Next ==
    \/ Call_putchar
    \/ Call_set_autofeed_method
    \/ Call_reset_hard
    \/ ResetInitLow
    \/ ResetInitHigh
    \/ Handshake

Spec == Init /\ [][Next]_vars

\* ------------------------------------------------------------------------
\* print.py: the image branch of readline, for an input line
\* "![alt_text](path)".
\* ------------------------------------------------------------------------
\* The driver after the initialisation of print.py: set_autofeed_method("soft")
\* was called and the last putchar left the strobe bit low.
InitFrontEnd ==
    /\ NL = <<CR, LF>>
    /\ hard_autofeed = FALSE
    /\ GPIOB = 254
    /\ op = NoOp
    /\ calls = <<>>
    /\ ci = 0
    /\ k = 0
    /\ pc = "idle"
    /\ error = FALSE
    /\ ready = FALSE
    /\ stt = NoStatus
    /\ action = NoAction
    /\ printed = {}
    /\ exc = NoException
    /\ log = <<>>
    /\ sent = <<>>
    /\ retries = 0
    /\ failures = 0
    /\ selected = "soft"
    /\ other = NoCaller
    /\ printer = "typical"

\* An exception raised inside `try: pa.write_image(...)` is waiting for the
\* except clause: the first putchar call of readline is write_string("\n"),
\* before the try.
InTry == op.name = "readline" /\ op.n = 0 /\ pc = "raised" /\ ci > 1

\* pa.write_string("\n"); try: pa.write_image("".join(path)).  op.s is the
\* path, op.m the alt text, op.n is 0 up to the except clause.
Call_readline ==
    /\ ~ InTry
    /\ \E path \in ImageNames, alt_text \in Messages :
          Begin("readline", 0, path, alt_text,
                write_string(<<"\n">>) \o write_image(Image(path)))
    /\ printed' = {}
    /\ UNCHANGED <<NL, hard_autofeed, GPIOB, selected, printer, other>>

\* except: pa.writeln("".join(alt_text)).  The clause names no exception
\* type, so it catches every exception of write_image, the operator's
\* KeyboardInterrupt included; op.n becomes 1 when that was caught and 2
\* otherwise.  `sent` goes on with the bytes of the same input line.
Readline_except ==
    /\ InTry
    /\ op' = [op EXCEPT !.n = IF exc.type = "KeyboardInterrupt" THEN 1
                              ELSE 2]
    /\ calls' = writeln(op.m)
    /\ ci' = 1
    /\ k' = 1
    /\ pc' = "setdata"
    /\ error' = FALSE
    /\ ready' = FALSE
    /\ stt' = NoStatus
    /\ action' = NoAction
    /\ printed' = {}
    /\ exc' = NoException
    /\ log' = <<>>
    /\ retries' = 0
    /\ failures' = 0
    /\ UNCHANGED <<NL, hard_autofeed, GPIOB, sent, selected, printer, other>>

NextFrontEnd ==
    \/ Call_readline
    \/ Readline_except
    \/ Handshake

SpecFrontEnd == InitFrontEnd /\ [][NextFrontEnd]_vars

\* status() called between the operations that drive the control port.
NextStatus ==
    \/ Call_status
    \/ Call_putchar
    \/ Call_set_autofeed_method
    \/ Call_reset_hard
    \/ ResetInitLow
    \/ ResetInitHigh
    \/ Handshake

SpecStatus == Init /\ [][NextStatus]_vars

\* putchar under its scheduling: the interpreter keeps
\* executing the statements of putchar (weak fairness of the steps before the
\* polling loop), and a printer that is polled for ever eventually answers a
\* poll with BUSY = 0 and ACK = 1 and no fault (weak fairness of the poll that
\* sees Ready).
PollReady == Poll /\ ready'

NextLive ==
    \/ Call_putchar
    \/ Handshake

SpecLive ==
    /\ InitTypical
    /\ [][NextLive]_vars
    /\ WF_vars(SetData)
    /\ WF_vars(StrobeFirst)
    /\ WF_vars(StrobeSecond)
    /\ WF_vars(PollReady)

\* Two callers of putchar on one adapter, on a printer without faults.
NextThreads ==
    \/ Call_putchar
    \/ SetData
    \/ StrobeFirst
    \/ StrobeSecond
    \/ Poll
    \/ Other_Call_putchar
    \/ Other_SetData
    \/ Other_StrobeFirst
    \/ Other_StrobeSecond
    \/ Other_Poll

SpecThreads == InitPatient /\ [][NextThreads]_vars

\* Every operation of the model next to set_autofeed_method.
NextPolicy ==
    \/ Call_set_autofeed_method
    \/ Call_putchar
    \/ Call_writeln
    \/ Call_write_image
    \/ Call_reset_printer
    \/ Call_reset_hard
    \/ ResetInitLow
    \/ ResetInitHigh
    \/ Call_set_page_length_lines
    \/ Call_set_page_length_inches
    \/ Call_set_abs_hor_pos
    \/ Call_set_rel_hor_pos
    \/ Call_set_line_spacing
    \/ Call_unset_line_spacing
    \/ Call_set_justification
    \/ Handshake

SpecPolicy == InitTypical /\ [][NextPolicy]_vars

\* The command codec.
NextCodec ==
    \/ Call_set_page_length_lines
    \/ Call_set_page_length_inches
    \/ Call_set_abs_hor_pos
    \/ Call_set_rel_hor_pos
    \/ Call_set_line_spacing
    \/ Call_unset_line_spacing
    \/ Call_set_justification
    \/ Handshake

SpecCodec == InitTypical /\ [][NextCodec]_vars

\* Lines and images under the autofeed policy.
NextLines ==
    \/ Call_set_autofeed_method
    \/ Call_writeln
    \/ Call_write_image
    \/ Handshake

SpecLines == InitTypical /\ [][NextLines]_vars

\* The relative horizontal position encoding over its whole documented
\* domain: one call of set_rel_hor_pos per behaviour, handshake left out.
RelMin == -16384
RelMax == 16384
RelDomain == RelMin..RelMax

Encode_set_rel_hor_pos ==
    /\ pc = "idle"
    /\ \E n \in RelDomain :
          Begin("set_rel_hor_pos", n, "", <<>>, set_rel_hor_pos(n))
    /\ printed' = {}
    /\ UNCHANGED <<NL, hard_autofeed, GPIOB, selected, printer, other>>

SpecRel == InitTypical /\ [][Encode_set_rel_hor_pos]_vars

\* The encodings as functions of their arguments: one call per behaviour,
\* up to the values handed to putchar, handshake left out.
AbsMin == 0
AbsMax == 32767
AbsDomain == AbsMin..AbsMax

Encode_set_abs_hor_pos ==
    /\ pc = "idle"
    /\ \E n \in AbsDomain :
          Begin("set_abs_hor_pos", n, "", <<>>, set_abs_hor_pos(n))
    /\ printed' = {}
    /\ UNCHANGED <<NL, hard_autofeed, GPIOB, selected, printer, other>>

Encode_write_image ==
    /\ pc = "idle"
    /\ \E filename \in ImageNames \cup WideImageNames :
          Begin("write_image", 0, filename, <<>>, write_image(Image(filename)))
    /\ printed' = {}
    /\ UNCHANGED <<NL, hard_autofeed, GPIOB, selected, printer, other>>

Encode_set_hor_tabs ==
    /\ pc = "idle"
    /\ \E n \in TabArgs : Begin("set_hor_tabs", 0, "", n, set_hor_tabs(n))
    /\ printed' = {}
    /\ UNCHANGED <<NL, hard_autofeed, GPIOB, selected, printer, other>>

Encode_set_ver_tabs ==
    /\ pc = "idle"
    /\ \E n \in TabArgs : Begin("set_ver_tabs", 0, "", n, set_ver_tabs(n))
    /\ printed' = {}
    /\ UNCHANGED <<NL, hard_autofeed, GPIOB, selected, printer, other>>

\* smile = pa.Glyph(); smile.data = [...]; pa.define_draft_char(65, smile):
\* op.m is empty when set_draft was not called on the glyph.
Encode_define_draft_char ==
    /\ pc = "idle"
    /\ LET smile == [Glyph EXCEPT !.data = SmileData]
       IN  \/ Begin("define_draft_char", 65, "", <<>>,
                    define_draft_char(65, <<smile>>))
           \/ \E before \in 0..7, after \in 1..11, upper \in BOOLEAN :
                 Begin("define_draft_char", 65, "",
                       <<before, after, IF upper THEN 1 ELSE 0>>,
                       define_draft_char(65,
                          <<set_draft(smile, before, after, upper)>>))
    /\ printed' = {}
    /\ UNCHANGED <<NL, hard_autofeed, GPIOB, selected, printer, other>>

\* define_draft_char(start_code, *glyphs) with any number of glyphs: op.m
\* holds the indexes of the glyphs in GlyphPool, in argument order.
Encode_define_draft_chars ==
    /\ pc = "idle"
    /\ \E start_code \in StartCodes, m \in GlyphLists :
          Begin("define_draft_char", start_code, "glyphs", m,
                define_draft_char(start_code,
                                  [i \in 1..Len(m) |-> GlyphPool[m[i]]]))
    /\ printed' = {}
    /\ UNCHANGED <<NL, hard_autofeed, GPIOB, selected, printer, other>>

\* write_image(filename, m) of 9-pindriver.py, up to its return or to the
\* exception that ends it.
Encode_write_image_9pin ==
    /\ pc = "idle"
    /\ \E filename \in ImageNames9pin, m \in PrintingModes :
         LET image == Image(filename)
         IN  /\ op' = [name |-> "write_image_9pin", n |-> m, s |-> filename,
                       m |-> <<>>]
             /\ calls' = write_image_9pin(image, m)
             /\ exc' = IF Completes9pin(image, m) THEN NoException
                       ELSE [type |-> IF image.mode = "RGB" THEN "IndexError"
                                      ELSE "TypeError",
                             args |-> {}]
    /\ ci' = 1
    /\ k' = 1
    /\ pc' = "setdata"
    /\ printed' = {}
    /\ UNCHANGED <<NL, hard_autofeed, GPIOB, error, ready, stt, action, log,
                   sent, retries, failures, selected, printer, other>>

NextEncode ==
    \/ Encode_set_abs_hor_pos
    \/ Encode_write_image_9pin
    \/ Encode_write_image
    \/ Encode_set_hor_tabs
    \/ Encode_set_ver_tabs
    \/ Encode_define_draft_char
    \/ Encode_define_draft_chars

SpecEncode == InitTypical /\ [][NextEncode]_vars

\* ------------------------------------------------------------------------
\* Properties.
\* ------------------------------------------------------------------------
\* All values of the putchar calls, in order.
RECURSIVE Flatten(_)
Flatten(cs) == IF cs = <<>> THEN <<>> ELSE Head(cs) \o Flatten(Tail(cs))

\* The values before the byte in progress.
Completed ==
    IF pc = "returned" \/ ci = 0 THEN (IF pc = "returned" THEN Flatten(calls) ELSE <<>>)
    ELSE Flatten(SubSeq(calls, 1, ci - 1)) \o SubSeq(calls[ci], 1, k - 1)

\* The prompt was reached: the fault branch of the poll was taken.
TookFaultBranch ==
    pc = "prompt" \/ (pc = "raised" /\ exc.type = "KeyboardInterrupt")

\* C1: a status poll is treated as a Fault exactly when PAPEREND = 1 or
\* SELECT = 0 or ERROR = 0, and as Ready only when BUSY = 0, ACK = 1 and no
\* fault condition holds.
C1_PollClassification ==
    stt # NoStatus =>
      /\ TookFaultBranch <=>
            (stt.PAPEREND = 1 \/ stt.SELECT = 0 \/ stt.ERROR = 0)
      /\ ready =>
            /\ stt.BUSY = 0 /\ stt.ACK = 1
            /\ stt.PAPEREND = 0 /\ stt.SELECT = 1 /\ stt.ERROR = 1

\* C1 witness: a poll that shows a fault together with BUSY = 0 and ACK = 1
\* led to the prompt.
C1_Witness ==
    /\ pc = "prompt"
    /\ stt.PAPEREND = 1 /\ stt.BUSY = 0 /\ stt.ACK = 1
    /\ stt.SELECT = 1 /\ stt.ERROR = 1

\* C2: the data port is written for the byte in progress only, all earlier
\* bytes of the input have completed in input order, a byte completes only
\* on a Ready poll, and every poll outcome follows the data write and the
\* two strobe writes of its byte.
C2_InOrderAfterReady ==
    /\ sent = Completed
    /\ \A i \in 1..Len(log) :
         /\ log[i].reg = "GPIOA" =>
               /\ ci >= 1
               /\ log[i].k = k
               /\ log[i].val = calls[ci][k]
         /\ log[i].reg \in {"READY", "FAULT"} =>
               /\ i >= 4
               /\ log[i - 1].reg = "GPIOB" /\ log[i - 1].k = log[i].k
               /\ log[i - 2].reg = "GPIOB" /\ log[i - 2].k = log[i].k
               /\ log[i - 3].reg = "GPIOA" /\ log[i - 3].k = log[i].k
    /\ (pc \in {"setdata", "returned"} /\ Len(sent) > 0 /\ retries = 0
        /\ log = <<>>) => (ready /\ stt.BUSY = 0 /\ stt.ACK = 1)

\* C2 witness: a three byte call completed, the last byte after a retry.
C2_Witness ==
    /\ pc = "returned"
    /\ op.name = "putchar"
    /\ sent = <<65, 66, 67>>
    /\ retries > 0

\* The fault flags a status shows.
FaultFlags(st) ==
    (IF st.PAPEREND = 1 THEN {"paper end"} ELSE {})
    \cup (IF st.SELECT = 0 THEN {"deselected"} ELSE {})
    \cup (IF st.ERROR = 0 THEN {"printer error"} ELSE {})

C4_Original ==
    \A i \in 1..Len(log) :
      (log[i].reg = "GPIOA" /\ log[i].res # "ok") =>
         /\ i = Len(log)
         /\ pc # "returned"

\* C5 as stated: after a fault and a retry the engine polls again without
\* writing the data port or the control port.
C5_Original ==
    \A i \in 1..Len(log) :
      (log[i].reg = "FAULT" /\ i < Len(log)) =>
         log[i + 1].reg \in {"FAULT", "READY"}

\* The number of data port writes logged for the byte in progress.
DataWrites == Cardinality({i \in 1..Len(log) : log[i].reg = "GPIOA"})

\* C5: after a fault and a retry the engine goes back to the data write of
\* the same byte: the same value is written to the data port again, then the
\* two strobe writes follow, and only then is the status polled again; a byte
\* is written once more per retry.
C5_RetryResendsByte ==
    /\ \A i \in 1..Len(log) :
         (log[i].reg = "FAULT" /\ i < Len(log)) =>
            /\ log[i + 1].reg = "GPIOA"
            /\ log[i + 1].val = log[i].val
            /\ log[i + 1].k = log[i].k
            /\ (i + 2 <= Len(log)) => log[i + 2].reg = "GPIOB"
            /\ (i + 3 <= Len(log)) => log[i + 3].reg = "GPIOB"
            /\ (i + 4 <= Len(log)) => log[i + 4].reg \in {"FAULT", "READY"}
    /\ (action = "y") => (pc = "setdata" /\ Last(log).reg = "FAULT")
    /\ (ci >= 1) =>
          DataWrites = (IF pc = "setdata" THEN retries ELSE retries + 1)

\* C5 witness: a byte completed after a retry.
C5_Witness ==
    /\ pc = "returned"
    /\ retries = 1
    /\ DataWrites = 2

\* C6 as stated: with every bus write successful, the strobe line is at its
\* idle level (1) during every status poll and when putchar has returned.
C6_Original ==
    (failures = 0 /\ ci >= 1 /\ pc \in {"poll", "prompt", "returned"}) =>
       BitAt(GPIOB, PIN_STROBE) = 1

\* The bytes a line-terminating call appends under each policy.
ExpectedNL(method) ==
    CASE method = "soft" -> <<13, 10>>
      [] method = "hard" -> <<13>>
      [] method = "none" -> <<13>>

\* The bytes of a message.
MessageBytes(message) == [i \in 1..Len(message) |-> ord(message[i])]

\* C7: once set_autofeed_method has selected a policy, writeln and every
\* band of write_image end with CR LF under 'soft' and with CR alone under
\* 'hard' and 'none', and under 'none' no control write asserts autofeed.
C7_LineEndingFollowsPolicy ==
    /\ (pc = "returned" /\ op.name = "writeln") =>
          sent = MessageBytes(op.m) \o ExpectedNL(selected)
    /\ (pc = "returned" /\ op.name = "write_image") =>
          LET image == Image(op.s)
              cols == image.width
              rows == image.height \div 8 + 1
              nl == ExpectedNL(selected)
              pre == IF rows > 1 THEN 3 ELSE 0
              post == IF rows > 1 THEN 2 ELSE 0
              band == 5 + cols + Len(nl)
          IN  /\ Len(sent) = pre + rows * band + post
              /\ \A r \in 0..(rows - 1) :
                    SubSeq(sent, pre + r * band + 5 + cols + 1,
                           pre + (r + 1) * band) = nl
    /\ (selected = "none" /\ op.name \in {"writeln", "write_image"}) =>
          \A i \in 1..Len(log) :
             log[i].reg = "GPIOB" => BitAt(log[i].val, PIN_AUTOFEED) = 1

\* C7 witness: a two band image printed under the 'soft' policy.
C7_Witness ==
    /\ pc = "returned"
    /\ op.name = "write_image"
    /\ op.s = "mix2x9"
    /\ selected = "soft"
    /\ NL = <<13, 10>>

\* C8: every value written to the control port has the autofeed bit at 0
\* exactly under the 'hard' policy, and every control write of putchar has
\* the INIT bit at 1.
C8_AutofeedBitFollowsPolicy ==
    \A i \in 1..Len(log) :
       log[i].reg = "GPIOB" =>
          /\ (BitAt(log[i].val, PIN_AUTOFEED) = 0) <=> (selected = "hard")
          /\ (log[i].k >= 1) => BitAt(log[i].val, PIN_INIT) = 1

\* C8 witness: reset_hard completed under the 'soft' policy: two control
\* writes of reset_hard and the two strobe writes of its putchar.
C8_Witness ==
    /\ pc = "returned"
    /\ op.name = "reset_hard"
    /\ selected = "soft"
    /\ Cardinality({i \in 1..Len(log) : log[i].reg = "GPIOB"}) = 4

\* The operation in progress was called outside its documented domain.
OutOfDomain ==
    \/ op.name = "set_page_length_lines" /\ ~(op.n >= 1 /\ op.n <= 127)
    \/ op.name = "set_page_length_inches" /\ ~(op.n >= 1 /\ op.n <= 22)
    \/ op.name = "set_abs_hor_pos" /\ ~(op.n >= 0 /\ op.n <= 32767)
    \/ op.name = "set_rel_hor_pos" /\ ~(op.n >= -16384 /\ op.n <= 16384)
    \/ op.name = "set_justification"
         /\ op.s \notin {"left", "right", "center", "full"}

RelDecode(nl, nh) ==
    IF nl > 255 THEN -((32768 - nl) + 256 * (32768 - nh))
    ELSE nl + 256 * nh

\* The pairs set_rel_hor_pos hands to putchar over its domain.
RelPairsSent == {<<set_rel_hor_pos(n)[1][3], set_rel_hor_pos(n)[1][4]>> : n \in RelDomain}

RelPairsDistinct == Cardinality(RelPairsSent) = Cardinality(RelDomain)

\* C10: for every n of -16384..16384 the pair (nl, nh) handed to putchar by
\* set_rel_hor_pos decodes back to n, and distinct n give distinct pairs.
C10_RelRoundTrip ==
    (op.name = "set_rel_hor_pos" /\ calls # <<>>) =>
       /\ RelDecode(calls[1][3], calls[1][4]) = op.n
       /\ calls[1][1] = 27 /\ calls[1][2] = 92
       /\ RelPairsDistinct

\* C10 witness: a negative multiple of 256 was encoded with both offsets.
C10_Witness ==
    /\ op.name = "set_rel_hor_pos"
    /\ op.n = -256
    /\ calls = << <<27, 92, 32768, 32767>> >>

\* C11 as stated: for a codec operation called inside its documented domain
\* every value handed to putchar, and every value written to the data port,
\* is an octet.
C11_Original ==
    (~ OutOfDomain) =>
       /\ \A i \in 1..Len(calls) :
             \A j \in 1..Len(calls[i]) : calls[i][j] \in 0..255
       /\ \A i \in 1..Len(log) :
             log[i].reg = "GPIOA" => log[i].val \in 0..255

\* C12: set_abs_hor_pos(n) for 0 <= n <= 32767 hands putchar exactly 27, 36,
\* n mod 256, n div 256, so that low + 256 * high = n with high <= 127, and
\* every graphics introducer of write_image carries the image width as
\* (cols mod 256, cols div 256).
C12_LowByteFirst ==
    /\ (op.name = "set_abs_hor_pos" /\ op.n \in AbsDomain) =>
          /\ Len(calls) = 1
          /\ Len(calls[1]) = 4
          /\ calls[1][1] = 27 /\ calls[1][2] = 36
          /\ calls[1][3] \in 0..255
          /\ calls[1][4] \in 0..127
          /\ calls[1][3] + 256 * calls[1][4] = op.n
    /\ (op.name = "write_image") =>
          /\ \E i \in 1..Len(calls) : Len(calls[i]) = 5
          /\ \A i \in 1..Len(calls) :
                Len(calls[i]) = 5 =>
                   /\ calls[i][1] = 27 /\ calls[i][2] = 42
                   /\ calls[i][4] \in 0..255
                   /\ calls[i][4] + 256 * calls[i][5] = Image(op.s).width

\* C12 witness: the largest position of the domain was encoded.
C12_Witness ==
    /\ op.name = "set_abs_hor_pos"
    /\ op.n = 32767
    /\ calls = << <<27, 36, 255, 127>> >>

\* The number of elements of s equal to v.
Count(s, v) == Cardinality({i \in 1..Len(s) : s[i] = v})

\* C13: set_hor_tabs and set_ver_tabs hand putchar ESC, the opcode (68 for
\* horizontal, 66 for vertical), the positions in ascending order with every
\* duplicate kept, and one zero byte last; there are as many position bytes
\* as positions supplied.
C13_TabsSortedKeptTerminated ==
    (op.name \in {"set_hor_tabs", "set_ver_tabs"}) =>
       LET b == Flatten(calls)
           pos == SubSeq(b, 3, Len(b) - 1)
       IN  /\ Len(b) = Len(op.m) + 3
           /\ b[1] = 27
           /\ b[2] = (IF op.name = "set_hor_tabs" THEN 68 ELSE 66)
           /\ Last(b) = 0
           /\ Len(pos) = Len(op.m)
           /\ \A i \in 1..(Len(pos) - 1) : pos[i] <= pos[i + 1]
           /\ \A v \in TabPositions : Count(pos, v) = Count(op.m, v)
           /\ \A i \in 1..Len(pos) : pos[i] # 0

\* C13 witness: three positions out of order, one of them twice.
C13_Witness ==
    /\ op.name = "set_hor_tabs"
    /\ op.m = <<8, 1, 8>>
    /\ Flatten(calls) = <<27, 68, 1, 8, 8, 0>>

\* C14: after set_draft(before, after, upper) with before in 0..7, after in
\* 1..11 the layout byte of the glyph is 16 * before + after + 128 * upper,
\* an octet from which after, before and upper are recovered by mod 16,
\* div 16 mod 8 and div 128; without set_draft the layout byte is 1.
C14_LayoutByte ==
    (op.name = "define_draft_char" /\ op.s = "") =>
       LET a == calls[2][1]
       IN  IF op.m = <<>>
             THEN a = 1
             ELSE /\ a = 16 * op.m[1] + op.m[2] + 128 * op.m[3]
                  /\ a \in 0..255
                  /\ a % 16 = op.m[2]
                  /\ (a \div 16) % 8 = op.m[1]
                  /\ a \div 128 = op.m[3]

\* C14 witness: the largest fields, on the upper pins.
C14_Witness ==
    /\ op.name = "define_draft_char"
    /\ op.m = <<7, 11, 1>>
    /\ calls[2][1] = 251

\* The graphics introducers among the putchar calls of write_image: the only
\* calls with five values.
Introducers == {i \in 1..Len(calls) : Len(calls[i]) = 5}

\* ceil(a / b)
CeilDiv(a, b) == (a + b - 1) \div b

\* C15 as stated: write_image transmits ceil(h / 8) graphics introducers, so
\* an image whose height is a multiple of 8 gets h / 8 bands.
C15_Original ==
    (op.name = "write_image" /\ pc = "returned") =>
       /\ sent = Flatten(calls)
       /\ Cardinality(Introducers) = CeilDiv(Image(op.s).height, 8)

\* The number of calls write_image makes before its first band.
BandsStart == IF Cardinality(Introducers) > 1 THEN 1 ELSE 0

\* The value handed to putchar for column c of band r.
DataByte(r, c) ==
    calls[BandsStart + r * (Image(op.s).width + 2) + 2 + c][1]

\* The bands and columns of the image being printed.
BandIndexes == 0..(Cardinality(Introducers) - 1)
ColumnIndexes == 0..(Image(op.s).width - 1)

\* The pixel at (x, y) exists and is black.
IsBlackAt(image, x, y) ==
    /\ <<x, y>> \in DOMAIN image.px
    /\ image.px[<<x, y>>] = (IF image.mode = "RGB" THEN Black ELSE 0)

\* The pixel at (x, y) exists and its first channel (its grey level in a
\* single channel image) is 0.
FirstChannelZeroAt(image, x, y) ==
    /\ <<x, y>> \in DOMAIN image.px
    /\ (IF image.mode = "RGB" THEN image.px[<<x, y>>][1]
        ELSE image.px[<<x, y>>]) = 0

\* C16 as stated: bit j of the data byte of band r and column c is set
\* exactly when the pixel at (c, 8r + j) is black: bit 0 is the top pixel.
C16_Original ==
    (op.name = "write_image") =>
       \A r \in BandIndexes, c \in ColumnIndexes, j \in 0..7 :
          (BitAt(DataByte(r, c), j) = 1)
             <=> IsBlackAt(Image(op.s), c, 8 * r + j)

\* C16: bit 7 - j of the data byte of band r and column c is set exactly
\* when the pixel at (c, 8r + j) is inside the image and its first channel
\* (its grey level in a single channel image) is 0: bit 7 is the top pixel
\* of the slice and bit 0 the bottom one; the bytes are transmitted as
\* computed.
C16_TopPixelIsBit7 ==
    (op.name = "write_image") =>
       /\ \A r \in BandIndexes, c \in ColumnIndexes, j \in 0..7 :
             (BitAt(DataByte(r, c), 7 - j) = 1)
                <=> FirstChannelZeroAt(Image(op.s), c, 8 * r + j)
       /\ (pc = "returned") => sent = Flatten(calls)

\* C16 witness: a band with a black top pixel in its first column, a blue
\* top pixel and a black third pixel in its second column.
C16_Witness ==
    /\ op.name = "write_image"
    /\ op.s = "dots2x3"
    /\ pc = "returned"
    /\ SubSeq(sent, 6, 7) = <<128, 160>>

C18_Original ==
    (/\ op.name = "write_image"
     /\ Image(op.s).height > 8
     /\ Len(sent) >= 3
     /\ \/ pc = "returned"
        \/ pc = "raised" /\ exc.type = "KeyboardInterrupt") =>
       SubSeq(sent, Len(sent) - 1, Len(sent)) = <<27, 50>>

C20_PollsUntilReadyOrFault ==
    /\ [][(pc = "poll") =>
            /\ (~ IsFault(stt') /\ ~ IsReady(stt')) =>
                  /\ pc' = "poll"
                  /\ ci' = ci /\ k' = k
                  /\ sent' = sent /\ log' = log
                  /\ retries' = retries /\ failures' = failures
                  /\ exc' = exc
            /\ (pc' = "prompt") <=> IsFault(stt')
            /\ (pc' \in {"setdata", "returned"}) <=>
                  (~ IsFault(stt') /\ IsReady(stt'))]_vars
    /\ \/ <>(pc = "prompt")
       \/ (pc = "setdata") ~>
             \/ pc = "returned" /\ sent = Flatten(calls)
             \/ pc = "raised" /\ exc.type = "IOError"

\* C20 witness: the second byte of a call is still being polled after a poll
\* that showed the printer busy.
C20_Witness ==
    /\ pc = "poll"
    /\ op.name = "putchar"
    /\ sent = <<65>>
    /\ stt # NoStatus
    /\ stt.BUSY = 1
    /\ ~ IsFault(stt)

\* C21 as stated: between the data port write of a byte by one call and the
\* Ready observation for that byte, no other call writes the data port or the
\* control port.
C21_Original ==
    \A i \in 1..Len(log), j \in 1..Len(log) :
       (/\ i < j
        /\ log[i].by = 1 /\ log[i].reg = "GPIOA"
        /\ log[j].by = 2 /\ log[j].reg \in {"GPIOA", "GPIOB"}) =>
          \E m \in i..j : log[m].reg = "READY"

\* The bytes per printed column of a density selector.
BytesPerColumn(m) == CASE m = 5 -> 1 [] m = 32 -> 3 [] m = 72 -> 6

\* The single data bytes among the putchar calls.
DataCalls == SelectSeq(calls, LAMBDA c : Len(c) = 1)

\* C22 as stated: for the density selected, write_image partitions the image
\* into bands of 8 * bytesPerColumn rows and emits, for each band and each
\* column, bytesPerColumn data bytes, the i-th of which covers the rows
\* 8i .. 8i+7 of the band in that column.
C22_Original ==
    (op.name = "write_image_9pin") =>
       LET image == Image(op.s)
           bpc == BytesPerColumn(op.n)
           bands == CeilDiv(image.height, 8 * bpc)
       IN  /\ exc = NoException
           /\ Len(DataCalls) = bands * image.width * bpc
           /\ \A r \in 0..(bands - 1), c \in 0..(image.width - 1),
                 i \in 0..(bpc - 1), j \in 0..7 :
                 (BitAt(DataCalls[(r * image.width + c) * bpc + i + 1][1], j)
                     = 1)
                    <=> IsBlackAt(image, c, 8 * bpc * r + 8 * i + j)

\* The policy each accepted method stands for: NL and the autofeed flag.
PolicyOf(method) ==
    CASE method = "hard" -> <<(<<13>>), TRUE>>
      [] method = "soft" -> <<(<<13, 10>>), FALSE>>
      [] method = "none" -> <<(<<13>>), FALSE>>

\* C23: the policy starts as 'hard' (NL = CR, autofeed asserted); a step
\* changes NL or the autofeed flag only when it is a call of
\* set_autofeed_method with 'hard', 'soft' or 'none', which sets the policy
\* of that method; a call with another string leaves both as they were,
\* returns and hands nothing to putchar.
C23_PolicyChangedOnlyBySetter ==
    /\ NL = <<13>> /\ hard_autofeed = TRUE
    /\ [](<<NL, hard_autofeed>> = PolicyOf(selected))
    /\ []((op.name = "set_autofeed_method") =>
            /\ pc = "returned"
            /\ calls = <<>> /\ sent = <<>> /\ log = <<>>
            /\ (op.s \in {"hard", "soft", "none"}) => selected = op.s)
    /\ [][(NL' # NL \/ hard_autofeed' # hard_autofeed \/ selected' # selected)
             => /\ op'.name = "set_autofeed_method"
                /\ op'.s \in {"hard", "soft", "none"}
                /\ selected' = op'.s]_vars

\* C23 witness: a call with an unknown method after 'soft' was selected.
C23_Witness ==
    /\ op.name = "set_autofeed_method"
    /\ op.s = "auto"
    /\ printed = {"Error: not a valid method."}
    /\ NL = <<13, 10>>
    /\ hard_autofeed = FALSE

\* The line spacing of the printer, in 1/216 inch, after one command: ESC 3 n
\* selects n/216 inch, ESC 2 selects the default of 1/6 inch.
DefaultSpacing == 36

SpacingAfterCall(c, spacing) ==
    IF Len(c) = 3 /\ c[1] = ESC /\ c[2] = 51 THEN c[3]
    ELSE IF c = <<ESC, 50>> THEN DefaultSpacing
    ELSE spacing

RECURSIVE SpacingAfter(_, _)
SpacingAfter(cs, spacing) ==
    IF cs = <<>> THEN spacing
    ELSE SpacingAfter(Tail(cs), SpacingAfterCall(Head(cs), spacing))

\* C24 as stated: after write_image of a multi-band image has returned, the
\* printer is at the line spacing n/216 inch it had before the call, for
\* every n.
C24_Original ==
    (op.name = "write_image" /\ pc = "returned" /\ Image(op.s).height > 8) =>
       /\ sent = Flatten(calls)
       /\ \A n \in 0..255 : SpacingAfter(calls, n) = n

\* C25 as stated: write_image transmits 27, 51, 24 before the first band
\* exactly when the image needs more than one band (ceil(height / 8) > 1),
\* and for an image of height <= 8 no line spacing command is sent.
C25_Original ==
    (op.name = "write_image" /\ pc = "returned") =>
       LET multi == CeilDiv(Image(op.s).height, 8) > 1
       IN  /\ (SubSeq(sent, 1, 3) = <<27, 51, 24>>) <=> multi
           /\ (~ multi) =>
                 \A i \in 1..Len(calls) :
                    calls[i] \notin {<<27, 51, 24>>, <<27, 50>>}

\* The number of bytes in the first n glyph records of glyphs gs: one layout
\* byte and the column data of each.
RECURSIVE RecordBytes(_, _)
RecordBytes(gs, n) ==
    IF n = 0 THEN 0
    ELSE RecordBytes(gs, n - 1) + 1 + Len(gs[n].data)

\* C26: define_draft_char(start_code, g1..gk) with k >= 1 transmits 27, 38,
\* 0, start_code, start_code + k - 1, then for each glyph in argument order
\* its layout byte and its column data in order, with nothing between
\* glyphs; there are 5 + sum of (1 + columns) bytes, and end code - start
\* code + 1 is the number of glyph records sent.
C26_GlyphRecords ==
    (op.name = "define_draft_char" /\ op.s = "glyphs" /\ Len(op.m) >= 1) =>
       LET gs    == [i \in 1..Len(op.m) |-> GlyphPool[op.m[i]]]
           count == Len(gs)
           bytes == Flatten(calls)
       IN  /\ SubSeq(bytes, 1, 5) = <<27, 38, 0, op.n, op.n + count - 1>>
           /\ Len(bytes) = 5 + RecordBytes(gs, count)
           /\ \A i \in 1..count :
                 LET off == 5 + RecordBytes(gs, i - 1)
                 IN  /\ bytes[off + 1] = gs[i]._a
                     /\ SubSeq(bytes, off + 2, off + 1 + Len(gs[i].data))
                           = gs[i].data
           /\ Len(calls) = 1 + count
           /\ \A i \in 1..count : calls[i + 1] = <<gs[i]._a>> \o gs[i].data
           /\ bytes[5] - bytes[4] + 1 = Len(calls) - 1

\* C26 witness: two glyphs of different widths, the second with a layout
\* byte set by set_draft.
C26_Witness ==
    /\ op.name = "define_draft_char"
    /\ op.s = "glyphs"
    /\ op.n = 65
    /\ op.m = <<1, 4>>
    /\ Flatten(calls) = <<27, 38, 0, 65, 66,
                          1, 0, 4, 0, 122, 0, 2, 120, 2, 4, 0, 0,
                          251, 1, 2>>

\* C27: status() decodes one read of the control port: for the value v read,
\* ACK = bit 1, BUSY = bit 2, PAPEREND = bit 3, SELECT = bit 4, ERROR = bit 6,
\* each 0 or 1 and independent of bits 0, 5 and 7; the call makes one port
\* read and no port write, changes no driver state, and two polls of an
\* unchanged port return equal statuses.
C27_StatusIsPureDecode ==
    /\ [](op.name = "status" =>
            /\ pc = "returned"
            /\ op.n \in 0..255
            /\ stt \in [{"ACK", "BUSY", "PAPEREND", "SELECT", "ERROR"}
                          -> {0, 1}]
            /\ op.n = BitAt(op.n, 0) + 2 * stt.ACK + 4 * stt.BUSY
                      + 8 * stt.PAPEREND + 16 * stt.SELECT
                      + 32 * BitAt(op.n, 5) + 64 * stt.ERROR
                      + 128 * BitAt(op.n, 7)
            /\ \A b \in {0, 5, 7} : status(ToggleBit(op.n, b)) = stt
            /\ Len(log) = 1
            /\ log[1].res = "read"
            /\ log[1].reg = "GPIOB"
            /\ log[1].val = op.n
            /\ sent = <<>>
            /\ exc = NoException)
    /\ [][op'.name = "status" =>
            UNCHANGED <<NL, hard_autofeed, GPIOB, selected>>]_vars
    /\ [][(op.name = "status" /\ op'.name = "status" /\ op'.n = op.n) =>
            stt' = stt]_vars

\* C27 witness: a poll of a port whose bits 0, 5 and 7 are all set and whose
\* five status bits are all clear.
C27_Witness ==
    /\ op.name = "status"
    /\ op.n = 161
    /\ stt = [ACK |-> 0, BUSY |-> 0, PAPEREND |-> 0, SELECT |-> 0,
              ERROR |-> 0]
    /\ GPIOB = 255

\* C28: reset_hard pulses only the INIT line: its first control-port write
\* has INIT (bit 7) low, the strobe bit at 1 and the autofeed bit as the
\* policy gives it; its second write has INIT high and the other bits
\* unchanged; the space (32) is put on the data port only after the second
\* write, and the call returns only once the printer reported Ready for it.
C28_ResetPulsesInitOnly ==
    (op.name = "reset_hard") =>
       /\ (pc = "init_low") => (log = <<>> /\ sent = <<>>)
       /\ (Len(log) >= 1) =>
             /\ log[1].reg = "GPIOB"
             /\ BitAt(log[1].val, PIN_INIT) = 0
             /\ BitAt(log[1].val, PIN_STROBE) = 1
             /\ BitAt(log[1].val, PIN_AUTOFEED)
                   = (IF hard_autofeed THEN 0 ELSE 1)
             /\ (pc = "init_high") <=> (Len(log) = 1 /\ log[1].res # "raise")
       /\ (Len(log) >= 2) =>
             /\ log[1].res # "raise"
             /\ log[2].reg = "GPIOB"
             /\ log[2].val = ToggleBit(log[1].val, PIN_INIT)
             /\ BitAt(log[2].val, PIN_INIT) = 1
       /\ \A i \in 1..Len(log) :
             (log[i].reg \notin {"GPIOB"}) =>
                 (i > 2 /\ log[2].res # "raise" /\ log[i].val = 32)
       /\ (sent # <<>>) => (sent = <<32>> /\ Len(log) > 2)
       /\ (pc = "returned") =>
             /\ sent = <<32>>
             /\ ready
             /\ stt.BUSY = 0 /\ stt.ACK = 1
             /\ Last(log).reg = "READY"
             /\ \E i \in 3..Len(log) : log[i].reg = "GPIOA" /\ log[i].val = 32

\* C28 witness: reset_hard returned under the hardware autofeed policy after
\* the pulse 95, 223 on the control port.
C28_Witness ==
    /\ op.name = "reset_hard"
    /\ pc = "returned"
    /\ hard_autofeed
    /\ log[1].val = 95
    /\ log[2].val = 223
    /\ sent = <<32>>

\* The number of values of the current calls whose handshake completed.
BytesCompleted ==
    IF pc = "returned" THEN Len(Flatten(calls))
    ELSE IF ci = 0 THEN 0
    ELSE Len(Flatten(SubSeq(calls, 1, ci - 1))) + (k - 1)

\* C29 as stated: when the operator declines to retry after a fault during
\* pa.write_image inside readline, the abort is not swallowed and followed by
\* more output: no further byte is transmitted for that input line.
C29_Original ==
    (op.name = "readline" /\ op.n = 1) =>
       BytesCompleted = 0

====
